---- MODULE Spec2Model ----
(***************************************************************************)
(* Model of examples/rapids-sagemaker-hpo/serve.py: the Flask inference    *)
(* server for SageMaker hosting.  The main thread runs serve() (setup,     *)
(* initial load of the trained model through the lru_cache wrapper,        *)
(* app.run) and the __main__ block that turns the outcome into an exit     *)
(* code; request threads run the /ping and /invocations handlers.          *)
(* Third-party calls (glob order, model loading, numpy conversion,         *)
(* predict, json.dumps) are nondeterministic over the outcomes they can    *)
(* produce: a value or a raised exception.                                 *)
(***************************************************************************)
EXTENDS Integers, Sequences, FiniteSets, TLC

\* ---------------------------------------------------------------- bounds
NumThreads == 2        \* request threads Flask may run concurrently
MaxRequests == 2       \* requests received during one run of the server

Main == 0
Threads == 1..NumThreads
Callers == {Main} \cup Threads

\* ------------------------------------------------------- the environment
\* Files that may be present in /opt/ml/model, as the "_"-separated parts
\* of their names.
ModelDir ==
  { <<"air", "xgb">>, <<"gpu", "rf">>, <<"gpu", "kmeans">>, <<"notes", "txt">> }

\* Request bodies: json says whether the bytes are a JSON document, rows is
\* the list of arrays it encodes.
Bodies ==
  { [json |-> FALSE, rows |-> <<>>],
    [json |-> TRUE,  rows |-> << <<1, 2>> >>],
    [json |-> TRUE,  rows |-> << <<1>>, <<2, 3>> >>] }

Routes == {"/ping", "/invocations"}

\* Raw scores (in tenths) an XGBoost model may produce, and class labels /
\* cluster ids a RandomForest or KMeans model may produce, per row.
Scores == {3, 7}
Labels == {0, 1}

xgboost_threshold == 5

\* --------------------------------------------------------------- values
None == <<>>
NoArray == [shape_ok |-> FALSE, rows |-> <<>>]
NoRequest == [route |-> "", body |-> [json |-> FALSE, rows |-> <<>>], seen |-> {}]

Ok(v) == [err |-> "", val |-> v]
Raise(e, v) == [err |-> e, val |-> v]

Response(response, status) == [status |-> status, response |-> response]

VARIABLES
  files,               \* content of /opt/ml/model
  GPU_INFERENCE_FLAG,  \* set at import time
  pc,                  \* position of the main thread and of each request thread
  exc,                 \* exception propagating out of serve() / out of a handler
  exitCode,            \* <<>> while the process lives, then <<code>>
  appRunCalled,        \* line 200 has been reached
  cache,               \* the lru_cache entry of load_trained_model
  loadCount,           \* number of executions of load_trained_model's body
  result,              \* (reloaded_model, model_type, model_filename) per caller
  req,                 \* the request a thread is handling; seen records the
                       \* statuses already answered when it arrived
  query_data,          \* per thread
  predictions,         \* per thread
  raised,              \* exception caught inside the handler, per thread
  called,              \* what the current request has called, per thread
  responses,           \* responses produced for the current request, per thread
  statuses,            \* statuses of the requests answered so far
  nreq                 \* requests received so far

vars == << files, GPU_INFERENCE_FLAG, pc, exc, exitCode, appRunCalled, cache,
           loadCount, result, req, query_data, predictions, raised, called,
           responses, statuses, nreq >>

mainVars == << exitCode, appRunCalled >>
reqVars == << req, query_data, predictions, raised, called, responses,
              statuses, nreq >>

\* ------------------------------------------------------- pure functions
\* glob.glob("/opt/ml/model/*_<suffix>")
Glob(suffix) == { f \in files : Len(f) >= 2 /\ f[Len(f)] = suffix }

\* "gpu" in model_filename
HasGpu(model_filename) ==
  \E i \in 1..Len(model_filename) : model_filename[i] = "gpu"

\* load_trained_model without its final else branch: with no model file it
\* returns an empty tuple of the usual shape instead of raising.
LoadOutcomesNoRaise ==
  IF Glob("xgb") \cup Glob("rf") \cup Glob("kmeans") = {}
    THEN { Ok(<< [lib |-> "", file |-> <<>>], "", <<>> >>) }
    ELSE { Ok(<< [lib |-> "joblib", file |-> f], "RandomForest", f >>) :
             f \in Glob("xgb") \cup Glob("rf") \cup Glob("kmeans") }

\* The outcomes of load_trained_model's body.
LoadOutcomes ==
  LET xgb_models == Glob("xgb")
      rf_models == Glob("rf")
      kmeans_models == Glob("kmeans")
      Loaded(lib, model_type, fs) ==
        { Ok(<< [lib |-> lib, file |-> f], model_type, f >>) : f \in fs }
          \cup { Raise("load error", None) }
  IN  IF xgb_models # {}
        THEN Loaded(IF GPU_INFERENCE_FLAG THEN "ForestInference" ELSE "Booster",
                    "XGBoost", xgb_models)
      ELSE IF rf_models # {}
        THEN Loaded("joblib", "RandomForest", rf_models)
      ELSE IF kmeans_models # {}
        THEN Loaded("joblib", "KMeans", kmeans_models)
      ELSE { Raise("! No trained models detected", None) }

\* json.loads(flask.request.get_data())
JsonLoads(body) ==
  IF body.json THEN Ok(body.rows) ELSE Raise("JSONDecodeError", <<>>)

Rectangular(rows) ==
  \A i, j \in 1..Len(rows) : Len(rows[i]) = Len(rows[j])

\* numpy.array(string_data): a ragged list raises ValueError (numpy >= 1.24)
\* or becomes an object array (older numpy).
NumpyArray(rows) ==
  IF Rectangular(rows)
    THEN { Ok([shape_ok |-> TRUE, rows |-> rows]) }
    ELSE { Raise("ValueError", NoArray),
           Ok([shape_ok |-> FALSE, rows |-> rows]) }

\* Lines 121-122.
ParseOutcomes(body) ==
  LET string_data == JsonLoads(body)
  IN  IF string_data.err # ""
        THEN { Raise(string_data.err, NoArray) }
        ELSE NumpyArray(string_data.val)

\* model.predict(data) on a loaded model: one value per row, or an exception;
\* an object array cannot be converted and raises.
ModelPredict(data, values) ==
  IF data.shape_ok
    THEN { Ok(p) : p \in [1..Len(data.rows) -> values] }
           \cup { Raise("predict error", <<>>) }
    ELSE { Raise("ValueError", <<>>) }

\* (predictions > xgboost_threshold) * 1.0
Threshold(p) ==
  [i \in 1..Len(p) |-> IF p[i] > xgboost_threshold THEN 1 ELSE 0]

\* The body of predict()'s second try block up to the predictions
\* (lines 136-174); uses_predict says whether model.predict is reached.
\* The GPU-model guard with the "not" on GPU_INFERENCE_FLAG dropped.
GpuModelOnCpuNegationDropped(model_filename) ==
  HasGpu(model_filename) /\ GPU_INFERENCE_FLAG

GpuModelOnCpu(model_filename) ==
  HasGpu(model_filename) /\ ~GPU_INFERENCE_FLAG

InferOutcomes(tuple, data) ==
  LET model_type == tuple[2]
      model_filename == tuple[3]
  IN  IF model_type = "XGBoost"
        THEN { IF o.err = "" THEN Ok(Threshold(o.val)) ELSE o :
                 o \in ModelPredict(data, Scores) }
      ELSE IF model_type = "RandomForest"
        THEN IF GpuModelOnCpu(model_filename)
               THEN { Raise("attempting to run CPU inference on a GPU trained RandomForest model", <<>>) }
               ELSE ModelPredict(data, Labels)
      ELSE IF model_type = "KMeans"
        THEN IF GpuModelOnCpu(model_filename)
               THEN { Raise("attempting to run CPU inference on a GPU trained KMeans model", <<>>) }
               ELSE ModelPredict(data, Labels)
      ELSE { Raise("UnboundLocalError", <<>>) }

UsesPredict(tuple) ==
  tuple[2] = "XGBoost" \/ ~GpuModelOnCpu(tuple[3])

ParseErrorResponse ==
  Response(<<"Unable to parse input data",
             "[ should be json/string encoded list of arrays ]">>, 415)

InferenceFailure(inference_error) ==
  Response(<<"Inference failure: ", inference_error, "\n">>, 400)

\* ----------------------------------------------------------------- Init
Init ==
  /\ files \in SUBSET ModelDir
  /\ GPU_INFERENCE_FLAG \in BOOLEAN
  /\ pc = [c \in Callers |-> IF c = Main THEN "serve" ELSE "idle"]
  /\ exc = [c \in Callers |-> ""]
  /\ exitCode = <<>>
  /\ appRunCalled = FALSE
  /\ cache = None
  /\ loadCount = 0
  /\ result = [c \in Callers |-> None]
  /\ req = [t \in Threads |-> NoRequest]
  /\ query_data = [t \in Threads |-> NoArray]
  /\ predictions = [t \in Threads |-> <<>>]
  /\ raised = [t \in Threads |-> ""]
  /\ called = [t \in Threads |-> {}]
  /\ responses = [t \in Threads |-> <<>>]
  /\ statuses = {}
  /\ nreq = 0

\* ------------------------------------------------- the main thread: serve()
\* Lines 49-57: create the app, log the workflow.  On the GPU path
\* cupy.cuda.runtime.getDeviceCount() may raise.
ServeSetup ==
  /\ pc[Main] = "serve"
  /\ \E ok \in (IF GPU_INFERENCE_FLAG THEN BOOLEAN ELSE {TRUE}) :
       IF ok
         THEN pc' = [pc EXCEPT ![Main] = "startup_load"] /\ exc' = exc
         ELSE /\ pc' = [pc EXCEPT ![Main] = "raised"]
              /\ exc' = [exc EXCEPT ![Main] = "CUDARuntimeError"]
  /\ UNCHANGED << files, GPU_INFERENCE_FLAG, mainVars, cache, loadCount,
                  result, reqVars >>

\* serve() without the initial call of line 197: loading is left to the
\* first request.
StartupLoadSkipped ==
  /\ pc[Main] = "startup_load"
  /\ pc' = [pc EXCEPT ![Main] = "app_run"]
  /\ UNCHANGED << files, GPU_INFERENCE_FLAG, exc, mainVars, cache, loadCount,
                  result, reqVars >>

\* Line 197: the initial call of load_trained_model, made before app.run.
StartupLoad ==
  /\ pc[Main] = "startup_load"
  /\ pc' = [pc EXCEPT ![Main] = "load_call"]
  /\ UNCHANGED << files, GPU_INFERENCE_FLAG, exc, mainVars, cache, loadCount,
                  result, reqVars >>

\* Where a caller of load_trained_model continues with the returned tuple.
AfterLoad(c) == IF c = Main THEN "app_run" ELSE "infer"

\* Line 64, the lru_cache wrapper on entry: a hit returns the cached tuple,
\* a miss goes on to run the wrapped function.
LoadCall(c) ==
  /\ pc[c] = "load_call"
  /\ c \in Threads => pc[Main] = "serving"
  /\ IF cache # None
       THEN /\ result' = [result EXCEPT ![c] = cache]
            /\ pc' = [pc EXCEPT ![c] = AfterLoad(c)]
       ELSE /\ result' = result
            /\ pc' = [pc EXCEPT ![c] = "load_body"]
  /\ called' = [t \in Threads |->
                  IF t = c THEN called[t] \cup {"load_trained_model"}
                           ELSE called[t]]
  /\ UNCHANGED << files, GPU_INFERENCE_FLAG, exc, mainVars, cache, loadCount,
                  req, query_data, predictions, raised, responses, statuses,
                  nreq >>

\* Lines 65-106: the body of load_trained_model.  An exception propagates to
\* the caller: out of serve() for the main thread, out of the handler (which
\* Flask answers with 500) for a request thread.
LoadBody(c) ==
  /\ pc[c] = "load_body"
  /\ c \in Threads => pc[Main] = "serving"
  /\ loadCount' = loadCount + 1
  /\ \E o \in LoadOutcomes :
       IF o.err = ""
         THEN /\ result' = [result EXCEPT ![c] = o.val]
              /\ pc' = [pc EXCEPT ![c] = "load_store"]
              /\ UNCHANGED << exc, responses >>
         ELSE /\ result' = result
              /\ exc' = [exc EXCEPT ![c] = o.err]
              /\ pc' = [pc EXCEPT ![c] = IF c = Main THEN "raised" ELSE "done"]
              /\ responses' =
                   [t \in Threads |->
                      IF t = c
                        THEN Append(responses[t],
                                    Response(<<"Internal Server Error">>, 500))
                        ELSE responses[t]]
  /\ UNCHANGED << files, GPU_INFERENCE_FLAG, mainVars, cache, req, query_data,
                  predictions, raised, called, statuses, nreq >>

\* Line 64, the lru_cache wrapper on return from the wrapped function: the
\* result is stored unless the key was added meanwhile, and is returned.
LoadStore(c) ==
  /\ pc[c] = "load_store"
  /\ c \in Threads => pc[Main] = "serving"
  /\ cache' = IF cache = None THEN result[c] ELSE cache
  /\ pc' = [pc EXCEPT ![c] = AfterLoad(c)]
  /\ UNCHANGED << files, GPU_INFERENCE_FLAG, exc, mainVars, loadCount, result,
                  reqVars >>

\* Line 200: app.run either starts serving or raises (the port cannot be
\* bound).
AppRun ==
  /\ pc[Main] = "app_run"
  /\ appRunCalled' = TRUE
  /\ \E ok \in BOOLEAN :
       IF ok
         THEN pc' = [pc EXCEPT ![Main] = "serving"] /\ exc' = exc
         ELSE /\ pc' = [pc EXCEPT ![Main] = "raised"]
              /\ exc' = [exc EXCEPT ![Main] = "OSError"]
  /\ UNCHANGED << files, GPU_INFERENCE_FLAG, exitCode, cache, loadCount,
                  result, reqVars >>

\* Line 200: the server is stopped and app.run returns, so serve() returns.
Shutdown ==
  /\ pc[Main] = "serving"
  /\ pc' = [pc EXCEPT ![Main] = "returned"]
  /\ UNCHANGED << files, GPU_INFERENCE_FLAG, exc, mainVars, cache, loadCount,
                  result, reqVars >>

\* Lines 203-210: the __main__ block.
MainExit ==
  /\ pc[Main] \in {"returned", "raised"}
  /\ exitCode' = IF pc[Main] = "returned" THEN << 0 >> ELSE << -1 >>
  /\ pc' = [pc EXCEPT ![Main] = "exited"]
  /\ UNCHANGED << files, GPU_INFERENCE_FLAG, exc, appRunCalled, cache,
                  loadCount, result, reqVars >>

\* ------------------------------------------------------ request threads
\* Flask dispatches an incoming request to a handler on thread t.
Receive(t) ==
  /\ pc[Main] = "serving"
  /\ pc[t] = "idle"
  /\ nreq < MaxRequests
  /\ nreq' = nreq + 1
  /\ \E route \in Routes, body \in Bodies :
       /\ req' = [req EXCEPT ![t] =
                    [route |-> route, body |-> body, seen |-> statuses]]
       /\ pc' = [pc EXCEPT ![t] = IF route = "/ping" THEN "ping" ELSE "parse"]
  /\ UNCHANGED << files, GPU_INFERENCE_FLAG, exc, mainVars, cache, loadCount,
                  result, query_data, predictions, raised, called, responses,
                  statuses >>

\* A heartbeat that reports the server unhealthy once an inference failed.
pingUnhealthyAfterFailure(t) ==
  /\ pc[Main] = "serving"
  /\ pc[t] = "ping"
  /\ responses' = [responses EXCEPT ![t] =
                     Append(@, Response(<<"\n">>,
                                        IF 400 \in statuses THEN 500 ELSE 200))]
  /\ pc' = [pc EXCEPT ![t] = "done"]
  /\ UNCHANGED << files, GPU_INFERENCE_FLAG, exc, mainVars, cache, loadCount,
                  result, req, query_data, predictions, raised, called,
                  statuses, nreq >>

\* Lines 59-62.
ping(t) ==
  /\ pc[Main] = "serving"
  /\ pc[t] = "ping"
  /\ responses' = [responses EXCEPT ![t] = Append(@, Response(<<"\n">>, 200))]
  /\ pc' = [pc EXCEPT ![t] = "done"]
  /\ UNCHANGED << files, GPU_INFERENCE_FLAG, exc, mainVars, cache, loadCount,
                  result, req, query_data, predictions, raised, called,
                  statuses, nreq >>

\* The parse step with the except clause's return missing: the 415 response
\* is built but the handler goes on to load the model and run inference.
ParseNoReturn(t) ==
  /\ pc[Main] = "serving"
  /\ pc[t] = "parse"
  /\ \E o \in ParseOutcomes(req[t].body) :
       query_data' = [query_data EXCEPT ![t] = o.val]
  /\ pc' = [pc EXCEPT ![t] = "load_call"]
  /\ UNCHANGED << files, GPU_INFERENCE_FLAG, exc, mainVars, cache, loadCount,
                  result, req, predictions, raised, called, responses,
                  statuses, nreq >>

\* Lines 114-133: parse the input; on an exception answer 415, otherwise go
\* on to the call of load_trained_model.
Parse(t) ==
  /\ pc[Main] = "serving"
  /\ pc[t] = "parse"
  /\ \E o \in ParseOutcomes(req[t].body) :
       IF o.err # ""
         THEN /\ responses' = [responses EXCEPT ![t] = Append(@, ParseErrorResponse)]
              /\ pc' = [pc EXCEPT ![t] = "done"]
              /\ query_data' = query_data
         ELSE /\ query_data' = [query_data EXCEPT ![t] = o.val]
              /\ pc' = [pc EXCEPT ![t] = "load_call"]
              /\ responses' = responses
  /\ UNCHANGED << files, GPU_INFERENCE_FLAG, exc, mainVars, cache, loadCount,
                  result, req, predictions, raised, called, statuses, nreq >>

\* Lines 135-178 and 188-194: run inference; an exception is answered 400.
Infer(t) ==
  /\ pc[Main] = "serving"
  /\ pc[t] = "infer"
  /\ called' = [called EXCEPT ![t] =
                  IF UsesPredict(result[t]) THEN @ \cup {"predict"} ELSE @]
  /\ \E o \in InferOutcomes(result[t], query_data[t]) :
       IF o.err # ""
         THEN /\ raised' = [raised EXCEPT ![t] = o.err]
              /\ responses' = [responses EXCEPT ![t] = Append(@, InferenceFailure(o.err))]
              /\ pc' = [pc EXCEPT ![t] = "done"]
              /\ predictions' = predictions
         ELSE /\ predictions' = [predictions EXCEPT ![t] = o.val]
              /\ pc' = [pc EXCEPT ![t] = "dump"]
              /\ UNCHANGED << raised, responses >>
  /\ UNCHANGED << files, GPU_INFERENCE_FLAG, exc, mainVars, cache, loadCount,
                  result, req, query_data, statuses, nreq >>

\* Lines 181-185 and 188-194: serialise the predictions and answer 200; an
\* exception raised by tolist()/json.dumps is answered 400.
Dump(t) ==
  /\ pc[Main] = "serving"
  /\ pc[t] = "dump"
  /\ \E ok \in BOOLEAN :
       IF ok
         THEN /\ responses' = [responses EXCEPT ![t] =
                                 Append(@, Response(<<"json", predictions[t]>>, 200))]
              /\ raised' = raised
         ELSE /\ raised' = [raised EXCEPT ![t] = "TypeError"]
              /\ responses' = [responses EXCEPT ![t] =
                                 Append(@, InferenceFailure("TypeError"))]
  /\ pc' = [pc EXCEPT ![t] = "done"]
  /\ UNCHANGED << files, GPU_INFERENCE_FLAG, exc, mainVars, cache, loadCount,
                  result, req, query_data, predictions, called, statuses,
                  nreq >>

\* The handler has returned: Flask sends the response and the thread is free
\* for the next request.
Complete(t) ==
  /\ pc[Main] = "serving"
  /\ pc[t] = "done"
  /\ statuses' = statuses \cup { responses[t][i].status : i \in 1..Len(responses[t]) }
  /\ pc' = [pc EXCEPT ![t] = "idle"]
  /\ exc' = [exc EXCEPT ![t] = ""]
  /\ result' = [result EXCEPT ![t] = None]
  /\ req' = [req EXCEPT ![t] = NoRequest]
  /\ query_data' = [query_data EXCEPT ![t] = NoArray]
  /\ predictions' = [predictions EXCEPT ![t] = <<>>]
  /\ raised' = [raised EXCEPT ![t] = ""]
  /\ called' = [called EXCEPT ![t] = {}]
  /\ responses' = [responses EXCEPT ![t] = <<>>]
  /\ UNCHANGED << files, GPU_INFERENCE_FLAG, mainVars, cache, loadCount, nreq >>

Next ==
  \/ ServeSetup
  \/ StartupLoad
  \/ \E c \in Callers : LoadCall(c)
  \/ \E c \in Callers : LoadBody(c)
  \/ \E c \in Callers : LoadStore(c)
  \/ AppRun
  \/ Shutdown
  \/ MainExit
  \/ \E t \in Threads : Receive(t)
  \/ \E t \in Threads : ping(t)
  \/ \E t \in Threads : Parse(t)
  \/ \E t \in Threads : Infer(t)
  \/ \E t \in Threads : Dump(t)
  \/ \E t \in Threads : Complete(t)

Spec == Init /\ [][Next]_vars

\* ------------------------------------------------------------ properties
Invocation(t) == req[t].route = "/invocations"
Status(t) == responses[t][1].status
Answered(t) == pc[t] = "done" /\ Len(responses[t]) >= 1
NoModelFile == Glob("xgb") \cup Glob("rf") \cup Glob("kmeans") = {}

\* C1: the trained model is located and loaded exactly once per server
\* process.  The body of load_trained_model runs only for the startup call
\* (never on a request thread, whatever the interleaving of requests), and
\* every request that obtains the (model, model_type, model_filename) tuple
\* obtains the tuple the startup call produced.
C1_LoadedExactlyOnce ==
  /\ loadCount <= 1
  /\ appRunCalled => loadCount = 1
  /\ \A t \in Threads :
       /\ pc[t] \notin {"load_body", "load_store"}
       /\ pc[t] \in {"infer", "dump"} => result[t] # None
       /\ result[t] # None => result[t] = result[Main] /\ result[t] = cache

\* Two requests handled concurrently both hold the startup tuple after a
\* single execution of the body.
C1_Witness ==
  /\ loadCount = 1
  /\ \E t, u \in Threads :
       /\ t # u
       /\ pc[t] = "infer" /\ pc[u] = "dump"
       /\ result[t] = result[Main] /\ result[u] = result[Main]
       /\ result[Main] # None

\* C2: the server accepts requests only after a successful load.  With no
\* file matching *_xgb, *_rf or *_kmeans app.run is never reached, the load
\* (once called) raises "! No trained models detected" and the process exits
\* with code -1; exit code 0 occurs only when serve() returned without an
\* exception.
C2_StartsOnlyAfterLoad ==
  /\ appRunCalled => cache # None /\ result[Main] = cache
  /\ (\E t \in Threads : pc[t] # "idle") => appRunCalled /\ cache # None
  /\ NoModelFile =>
       /\ ~appRunCalled
       /\ loadCount >= 1 =>
            /\ pc[Main] \in {"raised", "exited"}
            /\ exc[Main] = "! No trained models detected"
       /\ pc[Main] = "exited" => exitCode = << -1 >>
  /\ pc[Main] = "exited" /\ exc[Main] # "" => exitCode = << -1 >>
  /\ exitCode = << 0 >> => exc[Main] = "" /\ appRunCalled /\ cache # None
  /\ pc[Main] = "exited" <=> exitCode # <<>>

\* The model directory holds only a non-matching file, the load was called
\* and raised, and the process has exited with -1.
C2_Witness ==
  /\ files # {}
  /\ NoModelFile
  /\ loadCount = 1
  /\ exc[Main] = "! No trained models detected"
  /\ pc[Main] = "exited"
  /\ exitCode = << -1 >>

\* C3: a POST /invocations whose body cannot be parsed as JSON or converted
\* to a numpy array is answered with status 415 and the "Unable to parse
\* input data[ should be json/string encoded list of arrays ]" message, and
\* that request calls neither load_trained_model nor the model's predict.
C3_ParseFailureIs415 ==
  \A t \in Threads :
    Invocation(t) /\ pc[t] \notin {"idle", "parse"} =>
      /\ ~req[t].body.json => query_data[t] = NoArray
      /\ query_data[t] = NoArray =>
           /\ pc[t] = "done"
           /\ Len(responses[t]) = 1
           /\ Status(t) = 415
           /\ responses[t][1].response =
                << "Unable to parse input data",
                   "[ should be json/string encoded list of arrays ]" >>
           /\ called[t] = {}
           /\ result[t] = None
           /\ predictions[t] = <<>>

\* A body that is not JSON has been answered 415 without any call.
C3_Witness ==
  \E t \in Threads :
    /\ Invocation(t)
    /\ ~req[t].body.json
    /\ Answered(t)
    /\ Status(t) = 415
    /\ called[t] = {}

\* C4: every POST /invocations yields exactly one response, with status 200,
\* 400 or 415, and no exception escapes the handler.  200 only when
\* inference and the serialisation of the predictions raised nothing; any
\* exception raised during inference, including a GPU-trained RandomForest
\* or KMeans model on a host without GPU libraries, yields 400 with a body
\* starting "Inference failure: "; the server is still running after a
\* failure.
C4_EveryInvocationAnswered ==
  /\ \A t \in Threads :
       Invocation(t) =>
         /\ exc[t] = ""
         /\ pc[t] # "done" => responses[t] = <<>> /\ raised[t] = ""
         /\ pc[t] = "done" =>
              /\ Len(responses[t]) = 1
              /\ Status(t) \in {200, 400, 415}
              /\ Status(t) = 200 =>
                   /\ raised[t] = ""
                   /\ "predict" \in called[t]
                   /\ query_data[t].shape_ok
                   /\ Len(predictions[t]) = Len(query_data[t].rows)
                   /\ responses[t][1].response = << "json", predictions[t] >>
              /\ raised[t] # "" =>
                   /\ Status(t) = 400
                   /\ responses[t][1].response =
                        << "Inference failure: ", raised[t], "\n" >>
              /\ Status(t) = 400 => raised[t] # ""
              /\ ( /\ result[t] # None
                   /\ result[t][2] \in {"RandomForest", "KMeans"}
                   /\ HasGpu(result[t][3])
                   /\ ~GPU_INFERENCE_FLAG ) =>
                   /\ Status(t) = 400
                   /\ responses[t][1].response[1] = "Inference failure: "
                   /\ "predict" \notin called[t]
  /\ statuses \subseteq {200, 400, 415}
  /\ statuses # {} =>
       /\ pc[Main] \in {"serving", "returned", "exited"}
       /\ exitCode # << -1 >>

\* On a host without GPU libraries, a request that arrived after an earlier
\* one had failed with 400 is itself answered 400 for a GPU-trained
\* RandomForest or KMeans model, the server still serving.
C4_Witness ==
  /\ pc[Main] = "serving"
  /\ ~GPU_INFERENCE_FLAG
  /\ \E t \in Threads :
       /\ Invocation(t)
       /\ 400 \in req[t].seen
       /\ Answered(t)
       /\ Status(t) = 400
       /\ result[t][2] \in {"RandomForest", "KMeans"}
       /\ HasGpu(result[t][3])

\* C5: GET /ping answers 200 with body "\n" in every state of a running
\* server, whatever earlier /invocations requests returned, and the handler
\* neither obtains the cached model nor changes it.
C5_PingState ==
  \A t \in Threads :
    req[t].route = "/ping" =>
      /\ pc[t] \in {"ping", "done"}
      /\ called[t] = {}
      /\ result[t] = None
      /\ exc[t] = ""
      /\ pc[t] = "ping" => responses[t] = <<>>
      /\ pc[t] = "done" => responses[t] = << [status |-> 200, response |-> <<"\n">>] >>

C5_PingStep ==
  \A t \in Threads :
    pc[t] = "ping" /\ pc'[t] # "ping" =>
      /\ pc'[t] = "done"
      /\ cache' = cache
      /\ loadCount' = loadCount
      /\ result' = result

C5_PingAlwaysOk == []C5_PingState /\ [][C5_PingStep]_vars

\* A heartbeat that arrived after an /invocations request had failed with
\* 400 has been answered 200.
C5_Witness ==
  \E t \in Threads :
    /\ req[t].route = "/ping"
    /\ 400 \in req[t].seen
    /\ Answered(t)
    /\ Status(t) = 200

====
